---- MODULE Spec2Model ----
(***************************************************************************)
(* Model of the cross-chain-accounts example application:                  *)
(*   - FileUpload.uploadFile           (components/AccountBlobs.tsx)       *)
(*   - useSubmitFileToChain            (hooks, src/unnamed/part_000)       *)
(*   - AccountBlobs listing + classifier (components/AccountBlobs.tsx)     *)
(* Every `await` of the source is a suspension point: the code up to the   *)
(* next await is one action, the return (or throw) of the awaited call is  *)
(* the guard of the following action.                                      *)
(***************************************************************************)
EXTENDS Integers, Sequences, FiniteSets, TLC

\* ---------------------------------------------------------------- bounds
\* number of uploadFile runs that are ever started (one after the other:
\* the Upload button is disabled while isUploading)
MaxRuns == 2
\* largest value of the wall clock Date.now() (milliseconds)
MaxClock == 2

\* number of listing fetches that are ever started
MaxFetches == 3
\* largest value of the refresh counter handed to AccountBlobs
MaxRefresh == 2
\* longest list the listing API returns
MaxBlobs == 2

Runs == 1..MaxRuns
Clock == 0..MaxClock

\* ------------------------------------------------------------ value sets
Null == "null"
Accounts == {"A", "B"}
\* the connected wallet, by its capability flag wallet.isAptosNativeWallet
Wallets == {"native", "foreign"}
\* mutant: the capability flag is not consulted, every wallet is sponsored
isAptosNativeWalletIgnored(w) == FALSE

\* mutant: every wallet is taken to submit natively
isAptosNativeWalletAssumed(w) == TRUE

isAptosNativeWallet(w) == w = "native"

\* values a text field of the form can hold
FieldValues == {"", " ", "x"}
\* the values typed in the runs of the upload sequencer
TypedValues == {"", "x"}
\* the files the user can pick, by name
FileNames == {"a.jpg"}

VARIABLES
  \* useWallet()
  account, wallet,
  \* FileUpload component state
  isUploading, selectedFile, location, date, id, duration, redundancyLevel,
  showSuccessDialog, transactionHash, uploadedFileName,
  \* useSubmitFileToChain hook state
  isSubmitting, error,
  \* one record per uploadFile run: its position and its local constants
  run,
  \* environment: the transactions the chain knows, the clock
  nextTx, mempool, ledger, now,
  \* AccountBlobs component (unhandled: the fetches whose rejection no
  \* handler took; shownFetch: the fetch whose result setBlobs took last, 0
  \* after setBlobs([]))
  refreshTrigger, blobs, shownFetch, deps, fetches, nextFetch, unhandled, view

walletVars == <<account, wallet>>
formVars == <<selectedFile, location, date, id, duration, redundancyLevel>>
dialogVars == <<showSuccessDialog, transactionHash, uploadedFileName>>
hookVars == <<isSubmitting, error>>
chainVars == <<nextTx, mempool, ledger>>
listingVars == <<refreshTrigger, blobs, shownFetch, deps, fetches, nextFetch,
                 unhandled, view>>
vars == <<account, wallet, isUploading, selectedFile, location, date, id,
          duration, redundancyLevel, showSuccessDialog, transactionHash,
          uploadedFileName, isSubmitting, error, run, nextTx,
          mempool, ledger, now, refreshTrigger, blobs, shownFetch, deps,
          fetches, nextFetch, unhandled, view>>

\* ------------------------------------------------------- pure functions
\* String.prototype.trim on the modelled field values
trim(s) == IF s = " " THEN "" ELSE s

\* sanitizeInput: whitespace runs become "-", then leading and trailing
\* hyphens are removed
sanitizeInput(input) == IF input = " " THEN "" ELSE input

\* getFileExtension: "." and the part after the last "." of the picked file
getFileExtension == IF selectedFile = Null THEN "" ELSE ".jpg"

\* generateFileName: `${location}_${date}_${id}${extension}`, kept in parts
generateFileName ==
  <<sanitizeInput(location), "_", sanitizeInput(date), "_",
    sanitizeInput(id), getFileExtension>>

\* mutant: the id field is not checked
isFormValidWithoutId == trim(location) # "" /\ trim(date) # ""

isFormValid == trim(location) # "" /\ trim(date) # "" /\ trim(id) # ""

\* durationOptions (microseconds), scaled to the modelled clock range:
\* every option is a whole number of milliseconds
MicrosPerMilli == 1000
DefaultDuration == 2 * MicrosPerMilli
durationOptions == {1 * MicrosPerMilli, DefaultDuration}

redundancyOptions ==
  << [value |-> "economic", erasure_n |-> 12, erasure_k |-> 10, erasure_d |-> 11],
     [value |-> "standard", erasure_n |-> 16, erasure_k |-> 10, erasure_d |-> 13],
     [value |-> "high",     erasure_n |-> 20, erasure_k |-> 10, erasure_d |-> 15] >>

\* redundancyOptions.find(opt => opt.value === level) || redundancyOptions[1]
redundancyConfig(level) ==
  IF \E i \in 1..Len(redundancyOptions) : redundancyOptions[i].value = level
  THEN redundancyOptions[CHOOSE i \in 1..Len(redundancyOptions) :
                           /\ redundancyOptions[i].value = level
                           /\ \A j \in 1..(i-1) : redundancyOptions[j].value # level]
  ELSE redundancyOptions[2]

\* encodeFile: the provider configuration holds the parameters that are
\* truthy; the commitment is a function of the bytes and that configuration
encodeFile(file, erasure_n, erasure_k, erasure_d) ==
  LET providerConfig == <<IF erasure_n # 0 THEN erasure_n ELSE 0,
                          IF erasure_k # 0 THEN erasure_k ELSE 0,
                          IF erasure_d # 0 THEN erasure_d ELSE 0>>
  IN [blob_merkle_root |-> <<file, providerConfig>>, raw_data_size |-> 1]

\* ShelbyBlobClient.createRegisterBlobPayload as called by submitFileToChain
createRegisterBlobPayload(acct, file, commitment, expirationMicros) ==
  [account |-> acct,
   blobName |-> file,
   blobMerkleRoot |-> commitment.blob_merkle_root,
   expirationMicros |-> expirationMicros,
   blobSize |-> commitment.raw_data_size]

\* the values the redundancy select can hand to setRedundancyLevel: the
\* values of its options, and a string no option has
RedundancyLevels == {"economic", "standard", "high", "other"}

\* (erasure_n, erasure_k, erasure_d) of a redundancy option
ErasureArgs(config) == <<config.erasure_n, config.erasure_k, config.erasure_d>>

NoTx == 0
NoCommitment == [blob_merkle_root |-> <<>>, raw_data_size |-> 0]
NoAuth == [signer |-> Null, over |-> NoTx]

\* the locals of one uploadFile run (and of the submitFileToChain call in it);
\* calls lists the external calls in the order they were made, thrown names
\* the call that threw, finalized the hash whose finality wait returned,
\* uploaded the name of the file handed to uploadFileToRcp, level the
\* redundancyLevel the run read, encodeArgs and submitArgs the (n, k, d)
\* handed to encodeFile and to submitFileToChain, registeredAt the value
\* Date.now() returned when the expiration was computed
IdleRun ==
  [pc |-> "idle",
   account |-> Null, wallet |-> Null,
   file |-> Null, newFileName |-> <<>>,
   redundancyConfig |-> redundancyOptions[2],
   level |-> Null, encodeArgs |-> <<>>, submitArgs |-> <<>>,
   duration |-> 0,
   commitments |-> NoCommitment,
   registeredAt |-> -1, expirationMicros |-> 0,
   payload |-> createRegisterBlobPayload(Null, <<>>, NoCommitment, 0),
   rawTransaction |-> NoTx,
   senderAuthenticator |-> NoAuth,
   feePayerAuthenticator |-> NoAuth,
   transactionSubmitted |-> NoTx,
   thrown |-> "", finalized |-> NoTx,
   settled |-> "pending", result |-> NoTx, err |-> "",
   txHash |-> NoTx,
   calls |-> <<>>,
   uploaded |-> <<>>, uploadResult |-> "none",
   outcome |-> "none", alert |-> "", refreshed |-> FALSE]

Call(op, tx) == <<op, tx>>

\* ------------------------------------------------- AccountBlobs: classifier
\* isExpired, with the value Date.now() returned to it
isExpired(dateNow, expirationMicros) ==
  LET currentTimeMicros == dateNow * MicrosPerMilli
  IN currentTimeMicros > expirationMicros

\* mutant: the filtered list is not reversed
ReverseOmitted(s) == s

\* Array.prototype.reverse
Reverse(s) == [i \in 1..Len(s) |-> s[Len(s) + 1 - i]]

\* Array.prototype.filter, given the outcome of the predicate per element
RECURSIVE Filter(_, _)
Filter(list, keep) ==
  IF list = <<>> THEN <<>>
  ELSE (IF Head(keep) THEN <<Head(list)>> ELSE <<>>) \o Filter(Tail(list), Tail(keep))

\* blobs.filter((blob) => !isExpired(blob.expirationMicros)).reverse(), where
\* reads[i] is what Date.now() returned in the call for element i
currentBlobs(list, reads) ==
  Reverse(Filter(list, [i \in 1..Len(list) |->
                          ~isExpired(reads[i], list[i].expirationMicros)]))

\* blobs.filter((blob) => isExpired(blob.expirationMicros)).reverse()
expiredBlobs(list, reads) ==
  Reverse(Filter(list, [i \in 1..Len(list) |->
                          isExpired(reads[i], list[i].expirationMicros)]))

\* the clock never runs backwards: successive reads of Date.now()
ClockReads(n, from) ==
  {s \in [1..n -> from..MaxClock] : \A i, j \in 1..n : i < j => s[i] <= s[j]}

NoView == [blobs |-> <<>>, readsCurrent |-> <<>>, readsExpired |-> <<>>,
           currentBlobs |-> <<>>, expiredBlobs |-> <<>>]

\* BlobMetadata as the listing API reports it
Blob(n, o, e) == [name |-> n, owner |-> o, expirationMicros |-> e]
BlobNames == {"p", "q", "s"}
Expirations == {t * MicrosPerMilli + d : t \in Clock, d \in {0, 500}}

\* lists of at most MaxBlobs blobs of one owner, no name twice
ListsOf(S) ==
  {l \in UNION {[1..n -> S] : n \in 0..MaxBlobs} :
     \A i, j \in 1..Len(l) : i # j => l[i].name # l[j].name}

\* what getAccountBlobs can return for an account
ListingLists(a) == ListsOf({Blob(n, a, MicrosPerMilli) : n \in BlobNames})
ClassifierLists(a) == ListsOf({Blob(n, a, e) : n \in BlobNames, e \in Expirations})

\* ------------------------------------------------------------------ Init
Init ==
  /\ account = Null /\ wallet = Null
  /\ isUploading = FALSE
  /\ selectedFile = Null
  /\ location = "" /\ date = "" /\ id = ""
  /\ duration = DefaultDuration
  /\ redundancyLevel = "standard"
  /\ showSuccessDialog = FALSE
  /\ transactionHash = NoTx
  /\ uploadedFileName = <<>>
  /\ isSubmitting = FALSE
  /\ error = Null
  /\ run = [r \in Runs |-> IdleRun]
  /\ nextTx = 1
  /\ mempool = {}
  /\ ledger = {}
  /\ now = 0
  /\ refreshTrigger = 0
  /\ blobs = <<>>
  /\ shownFetch = 0
  /\ deps = <<Null, 0>>
  /\ fetches = {}
  /\ nextFetch = 1
  /\ unhandled = {}
  /\ view = NoView

\* --------------------------------------------------- wallet adapter, form
\* (a setter called with the value the state already holds changes nothing
\* and is left out)
\* the wallet adapter connects an account through a wallet
Connect(a, w) ==
  /\ account = Null
  /\ account' = a /\ wallet' = w
  /\ UNCHANGED <<isUploading, formVars, dialogVars, hookVars, run, chainVars, now, listingVars>>

Disconnect ==
  /\ account # Null
  /\ account' = Null /\ wallet' = Null
  /\ UNCHANGED <<isUploading, formVars, dialogVars, hookVars, run, chainVars, now, listingVars>>

handleFileChange(file) ==
  /\ file # selectedFile
  /\ selectedFile' = file
  /\ UNCHANGED <<walletVars, isUploading, location, date, id, duration,
                 redundancyLevel, dialogVars, hookVars, run, chainVars, now, listingVars>>

setLocation(v) ==
  /\ v # location
  /\ location' = v
  /\ UNCHANGED <<walletVars, isUploading, selectedFile, date, id, duration,
                 redundancyLevel, dialogVars, hookVars, run, chainVars, now, listingVars>>

setDate(v) ==
  /\ v # date
  /\ date' = v
  /\ UNCHANGED <<walletVars, isUploading, selectedFile, location, id, duration,
                 redundancyLevel, dialogVars, hookVars, run, chainVars, now, listingVars>>

setId(v) ==
  /\ v # id
  /\ id' = v
  /\ UNCHANGED <<walletVars, isUploading, selectedFile, location, date,
                 duration, redundancyLevel, dialogVars, hookVars, run,
                 chainVars, now, listingVars>>

setRedundancyLevel(l) ==
  /\ l # redundancyLevel
  /\ redundancyLevel' = l
  /\ UNCHANGED <<walletVars, isUploading, selectedFile, location, date, id,
                 duration, dialogVars, hookVars, run, chainVars, now, listingVars>>

setDuration(d) ==
  /\ d # duration
  /\ duration' = d
  /\ UNCHANGED <<walletVars, isUploading, selectedFile, location, date, id,
                 redundancyLevel, dialogVars, hookVars, run, chainVars, now,
                 listingVars>>

\* resetForm, reached from the success dialog (close button, onOpenChange)
resetForm ==
  /\ showSuccessDialog
  /\ selectedFile' = Null
  /\ location' = "" /\ date' = "" /\ id' = ""
  /\ duration' = DefaultDuration
  /\ showSuccessDialog' = FALSE
  /\ UNCHANGED <<walletVars, isUploading, redundancyLevel, transactionHash,
                 uploadedFileName, hookVars, run, chainVars, now,
                 listingVars>>

\* ------------------------------------------- useSubmitFileToChain (hook)
\* catch + finally of submitFileToChain: setError(err.message), rethrow,
\* setIsSubmitting(false); the promise of the call is rejected with err
Rejected(r, ru, msg) ==
  /\ run' = [run EXCEPT ![r] =
               [ru EXCEPT !.pc = "awaitSubmit", !.settled = "rejected", !.err = msg]]
  /\ error' = msg
  /\ isSubmitting' = FALSE

\* mutant: the sponsor signs a transaction that was built again
FeePayerTransactionRebuilt(ru) == ru.rawTransaction + 1

\* the transaction handed to signAsFeePayer
FeePayerTransaction(ru) == ru.rawTransaction

\* the transaction handed to submit.simple
SubmittedTransaction(ru) == ru.rawTransaction

\* mutant: the check for account and wallet is made inside the try, after
\* the two state updates
ThrowsRequiredInsideTry(r, ru) ==
  Rejected(r, ru, "Account and wallet are required")

\* the throw of the check for account and wallet: it precedes the state
\* updates and the try, so no catch or finally of the hook runs
ThrowsRequired(r, ru) ==
  /\ run' = [run EXCEPT ![r] =
               [ru EXCEPT !.pc = "awaitSubmit", !.settled = "rejected",
                          !.err = "Account and wallet are required"]]
  /\ UNCHANGED hookVars

\* submitFileToChain from its first line to its first await, called with the
\* locals of run r; account and wallet are the ones its closure captured
submitFileToChain(r, ru) ==
  IF ru.account = Null \/ ru.wallet = Null
  THEN ThrowsRequired(r, ru)
  ELSE LET withPayload ==
             [ru EXCEPT !.payload =
                createRegisterBlobPayload(ru.account, ru.newFileName,
                                          ru.commitments, ru.expirationMicros)]
       IN IF isAptosNativeWallet(ru.wallet)
          THEN /\ run' = [run EXCEPT ![r] =
                            [withPayload EXCEPT
                               !.pc = "signAndSubmitTransaction",
                               !.calls = Append(@, Call("signAndSubmitTransaction", NoTx))]]
               /\ isSubmitting' = TRUE
               /\ error' = Null
          ELSE \* the sponsor key of the environment is unusable: the
               \* construction of the sponsor account throws
               \/ Rejected(r, [withPayload EXCEPT
                                 !.thrown = "Account.fromPrivateKey",
                                 !.calls = Append(@, Call("Account.fromPrivateKey", NoTx))],
                           "invalid sponsor private key")
               \* the sponsor account is made and build.simple is called
               \/ /\ run' = [run EXCEPT ![r] =
                                [withPayload EXCEPT
                                   !.pc = "build",
                                   !.calls = @ \o <<Call("Account.fromPrivateKey", NoTx),
                                                    Call("build.simple", NoTx)>>]]
                  /\ isSubmitting' = TRUE
                  /\ error' = Null

\* the arguments of a direct call of the hook's submitFileToChain
HookFile == <<"a.jpg">>
HookCommitment == encodeFile(HookFile, redundancyOptions[2].erasure_n,
                             redundancyOptions[2].erasure_k,
                             redundancyOptions[2].erasure_d)

\* a component calls the submitFileToChain the hook returned in the current
\* render (its closure holds the account and wallet of that render) and
\* awaits it; it calls again only after the previous call settled
CallSubmitFileToChain(r) ==
  /\ run[r].pc = "idle"
  /\ \A q \in Runs : q < r => run[q].pc # "idle" /\ run[q].settled # "pending"
  /\ submitFileToChain(r,
       [run[r] EXCEPT
          !.account = account, !.wallet = wallet,
          !.newFileName = HookFile,
          !.commitments = HookCommitment,
          !.expirationMicros = now * MicrosPerMilli + DefaultDuration])
  /\ UNCHANGED <<walletVars, isUploading, formVars, dialogVars, chainVars, now, listingVars>>

\* a component calls submitFileToChain without waiting for the calls it made
\* before (a double submit)
CallSubmitFileToChainAgain(r) ==
  /\ run[r].pc = "idle"
  /\ \A q \in Runs : q < r => run[q].pc # "idle"
  /\ submitFileToChain(r,
       [run[r] EXCEPT
          !.account = account, !.wallet = wallet,
          !.newFileName = HookFile,
          !.commitments = HookCommitment,
          !.expirationMicros = now * MicrosPerMilli + DefaultDuration])
  /\ UNCHANGED <<walletVars, isUploading, formVars, dialogVars, chainVars, now, listingVars>>

\* native path: signAndSubmitTransaction returned { hash }
SignAndSubmitReturn(r) ==
  /\ run[r].pc = "signAndSubmitTransaction"
  /\ run' = [run EXCEPT ![r] =
               [@ EXCEPT !.transactionSubmitted = nextTx,
                         !.pc = "waitForTransaction",
                         !.calls = Append(@, Call("waitForTransaction", nextTx))]]
  /\ mempool' = mempool \cup {nextTx}
  /\ nextTx' = nextTx + 1
  /\ UNCHANGED <<walletVars, isUploading, formVars, dialogVars, hookVars,
                 ledger, now, listingVars>>

\* native path: the wallet refused or failed; nothing was submitted
SignAndSubmitThrow(r) ==
  /\ run[r].pc = "signAndSubmitTransaction"
  /\ Rejected(r, [run[r] EXCEPT !.thrown = "signAndSubmitTransaction"], "WalletError")
  /\ UNCHANGED <<walletVars, isUploading, formVars, dialogVars, chainVars, now, listingVars>>

\* mutant: the transaction is handed to the chain as soon as it is built
BuildReturnSubmits(r) ==
  /\ run[r].pc = "build"
  /\ run' = [run EXCEPT ![r] =
               [@ EXCEPT !.rawTransaction = nextTx,
                         !.pc = "signTransaction",
                         !.calls = Append(@, Call("signTransaction", nextTx))]]
  /\ mempool' = mempool \cup {nextTx}
  /\ nextTx' = nextTx + 1
  /\ UNCHANGED <<walletVars, isUploading, formVars, dialogVars, hookVars,
                 ledger, now, listingVars>>

\* mutant: the sponsor signs before the wallet is asked
BuildReturnSponsorFirst(r) ==
  /\ run[r].pc = "build"
  /\ run' = [run EXCEPT ![r] =
               [@ EXCEPT !.rawTransaction = nextTx,
                         !.pc = "signTransaction",
                         !.calls = @ \o <<Call("signAsFeePayer", nextTx),
                                          Call("signTransaction", nextTx)>>]]
  /\ nextTx' = nextTx + 1
  /\ UNCHANGED <<walletVars, isUploading, formVars, dialogVars, hookVars,
                 mempool, ledger, now, listingVars>>

\* sponsored path: build.simple returned the raw transaction
BuildReturn(r) ==
  /\ run[r].pc = "build"
  /\ run' = [run EXCEPT ![r] =
               [@ EXCEPT !.rawTransaction = nextTx,
                         !.pc = "signTransaction",
                         !.calls = Append(@, Call("signTransaction", nextTx))]]
  /\ nextTx' = nextTx + 1
  /\ UNCHANGED <<walletVars, isUploading, formVars, dialogVars, hookVars,
                 mempool, ledger, now, listingVars>>

BuildThrow(r) ==
  /\ run[r].pc = "build"
  /\ Rejected(r, [run[r] EXCEPT !.thrown = "build.simple"], "ChainBuildError")
  /\ UNCHANGED <<walletVars, isUploading, formVars, dialogVars, chainVars, now, listingVars>>

\* sponsored path: signTransaction returned the sender authenticator; the
\* sponsor then signs as fee payer (synchronous) and submit.simple is called
SignTransactionReturn(r) ==
  /\ run[r].pc = "signTransaction"
  /\ LET signed == [run[r] EXCEPT
                      !.senderAuthenticator =
                         [signer |-> run[r].account, over |-> run[r].rawTransaction],
                      !.calls = Append(@, Call("signAsFeePayer",
                                               FeePayerTransaction(run[r])))]
     IN \/ Rejected(r, [signed EXCEPT !.thrown = "signAsFeePayer"], "SigningError")
        \/ /\ run' = [run EXCEPT ![r] =
                        [signed EXCEPT
                           !.feePayerAuthenticator =
                              [signer |-> "sponsor", over |-> FeePayerTransaction(run[r])],
                           !.pc = "submit",
                           !.calls = Append(@, Call("submit.simple",
                                                    SubmittedTransaction(run[r])))]]
           /\ UNCHANGED hookVars
  /\ UNCHANGED <<walletVars, isUploading, formVars, dialogVars, chainVars, now, listingVars>>

\* mutant: a failed sender signature is ignored and the submit call is made
SignTransactionThrowIgnored(r) ==
  /\ run[r].pc = "signTransaction"
  /\ run' = [run EXCEPT ![r] =
               [@ EXCEPT !.thrown = "signTransaction",
                         !.pc = "submit",
                         !.calls = Append(@, Call("submit.simple", run[r].rawTransaction))]]
  /\ UNCHANGED <<walletVars, isUploading, formVars, dialogVars, hookVars,
                 chainVars, now, listingVars>>

SignTransactionThrow(r) ==
  /\ run[r].pc = "signTransaction"
  /\ Rejected(r, [run[r] EXCEPT !.thrown = "signTransaction"], "WalletError")
  /\ UNCHANGED <<walletVars, isUploading, formVars, dialogVars, chainVars, now, listingVars>>

\* mutant: the hash is returned as soon as the chain accepted the transaction
SubmitReturnNoWait(r) ==
  /\ run[r].pc = "submit"
  /\ run' = [run EXCEPT ![r] =
               [@ EXCEPT !.transactionSubmitted = run[r].rawTransaction,
                         !.pc = "awaitSubmit", !.settled = "fulfilled",
                         !.result = run[r].rawTransaction]]
  /\ mempool' = mempool \cup {run[r].rawTransaction}
  /\ isSubmitting' = FALSE
  /\ UNCHANGED <<walletVars, isUploading, formVars, dialogVars, error,
                 nextTx, ledger, now, listingVars>>

\* sponsored path: the chain accepted the transaction with both authenticators
\* (it verifies that both were made over the submitted transaction)
SubmitReturn(r) ==
  /\ run[r].pc = "submit"
  /\ run[r].senderAuthenticator.over = SubmittedTransaction(run[r])
  /\ run[r].feePayerAuthenticator.over = SubmittedTransaction(run[r])
  /\ run' = [run EXCEPT ![r] =
               [@ EXCEPT !.transactionSubmitted = SubmittedTransaction(run[r]),
                         !.pc = "waitForTransaction",
                         !.calls = Append(@, Call("waitForTransaction",
                                                  SubmittedTransaction(run[r])))]]
  /\ mempool' = mempool \cup {SubmittedTransaction(run[r])}
  /\ UNCHANGED <<walletVars, isUploading, formVars, dialogVars, hookVars,
                 nextTx, ledger, now, listingVars>>

SubmitThrow(r) ==
  /\ run[r].pc = "submit"
  /\ Rejected(r, [run[r] EXCEPT !.thrown = "submit.simple"], "ChainSubmissionError")
  /\ UNCHANGED <<walletVars, isUploading, formVars, dialogVars, chainVars, now, listingVars>>

\* both paths: waitForTransaction returned, the transaction is final; the
\* call returns transactionSubmitted.hash and finally clears isSubmitting
WaitReturn(r) ==
  /\ run[r].pc = "waitForTransaction"
  /\ run[r].transactionSubmitted \in ledger
  /\ run' = [run EXCEPT ![r] =
               [@ EXCEPT !.pc = "awaitSubmit", !.settled = "fulfilled",
                         !.finalized = run[r].transactionSubmitted,
                         !.result = run[r].transactionSubmitted]]
  /\ isSubmitting' = FALSE
  /\ UNCHANGED <<walletVars, isUploading, formVars, dialogVars, error,
                 chainVars, now, listingVars>>

\* both paths: waitForTransaction threw an error with message msg
WaitRejects(r, msg) ==
  /\ run[r].pc = "waitForTransaction"
  /\ Rejected(r, [run[r] EXCEPT !.thrown = "waitForTransaction"], msg)
  /\ UNCHANGED <<walletVars, isUploading, formVars, dialogVars, chainVars, now, listingVars>>

\* mutant: after a failed finality wait the transaction is submitted again
WaitThrowRetries(r) ==
  /\ run[r].pc = "waitForTransaction"
  /\ run' = [run EXCEPT ![r] =
               [@ EXCEPT !.thrown = "waitForTransaction",
                         !.pc = "signAndSubmitTransaction",
                         !.calls = Append(@, Call("signAndSubmitTransaction", NoTx))]]
  /\ UNCHANGED <<walletVars, isUploading, formVars, dialogVars, hookVars,
                 chainVars, now, listingVars>>

\* both paths: waitForTransaction threw (timeout, network, rejection)
WaitThrow(r) == WaitRejects(r, "FinalityError")

\* ------------------------------------------------------------ the clock
\* a millisecond passes
Tick ==
  /\ now < MaxClock
  /\ now' = now + 1
  /\ UNCHANGED <<walletVars, isUploading, formVars, dialogVars, hookVars, run,
                 chainVars, listingVars>>

\* ------------------------------------------------------------ the chain
\* a transaction in the mempool is executed and becomes final
ChainCommit(t) ==
  /\ t \in mempool
  /\ mempool' = mempool \ {t}
  /\ ledger' = ledger \cup {t}
  /\ UNCHANGED <<walletVars, isUploading, formVars, dialogVars, hookVars, run,
                 nextTx, now, listingVars>>

\* a transaction in the mempool expires and is discarded
ChainDiscard(t) ==
  /\ t \in mempool
  /\ mempool' = mempool \ {t}
  /\ UNCHANGED <<walletVars, isUploading, formVars, dialogVars, hookVars, run,
                 nextTx, ledger, now, listingVars>>

\* ------------------------------------------------- FileUpload.uploadFile
\* catch + finally of uploadFile: alert the message, setIsUploading(false)
Failed(r, ru, msg) ==
  /\ run' = [run EXCEPT ![r] =
               [ru EXCEPT !.pc = "done", !.outcome = "failed", !.alert = msg]]
  /\ isUploading' = FALSE

\* mutant: the storage upload is started together with the encoding
ClickUploadFansOut(r) ==
  /\ run[r].pc = "idle"
  /\ \A q \in Runs : q < r => run[q].pc # "idle"
  /\ ~isUploading /\ selectedFile # Null /\ isFormValid
  /\ ~(selectedFile = Null \/ account = Null \/ wallet = Null \/ ~isFormValid)
  /\ isUploading' = TRUE
  /\ run' = [run EXCEPT ![r] =
               [@ EXCEPT !.pc = "encodeFile",
                         !.account = account, !.wallet = wallet,
                         !.file = selectedFile,
                         !.newFileName = generateFileName,
                         !.redundancyConfig = redundancyConfig(redundancyLevel),
                         !.level = redundancyLevel,
                         !.encodeArgs = ErasureArgs(redundancyConfig(redundancyLevel)),
                         !.duration = duration,
                         !.uploaded = generateFileName,
                         !.calls = @ \o <<Call("encodeFile", NoTx),
                                          Call("uploadFileToRcp", NoTx)>>]]
  /\ UNCHANGED <<walletVars, formVars, dialogVars, hookVars, chainVars, now, listingVars>>

\* the Upload button (disabled while isUploading, without a file or with an
\* invalid form) calls uploadFile, which runs up to `await encodeFile(...)`
ClickUpload(r) ==
  /\ run[r].pc = "idle"
  /\ \A q \in Runs : q < r => run[q].pc # "idle"
  /\ ~isUploading /\ selectedFile # Null /\ isFormValid
  /\ ~(selectedFile = Null \/ account = Null \/ wallet = Null \/ ~isFormValid)
  /\ isUploading' = TRUE
  /\ run' = [run EXCEPT ![r] =
               [@ EXCEPT !.pc = "encodeFile",
                         !.account = account, !.wallet = wallet,
                         !.file = selectedFile,
                         !.newFileName = generateFileName,
                         !.redundancyConfig = redundancyConfig(redundancyLevel),
                         !.level = redundancyLevel,
                         !.encodeArgs = ErasureArgs(redundancyConfig(redundancyLevel)),
                         !.duration = duration,
                         !.calls = Append(@, Call("encodeFile", NoTx))]]
  /\ UNCHANGED <<walletVars, formVars, dialogVars, hookVars, chainVars, now, listingVars>>

\* uploadFile called while the guard of its first line fails (the handler is
\* the button's onClick; the guard is the handler's own): it returns at once
uploadFileReturns(r) ==
  /\ run[r].pc = "idle"
  /\ \A q \in Runs : q < r => run[q].pc # "idle"
  /\ ~isUploading
  /\ (selectedFile = Null \/ account = Null \/ wallet = Null \/ ~isFormValid)
  /\ run' = [run EXCEPT ![r] = [@ EXCEPT !.pc = "done", !.outcome = "returned"]]
  /\ UNCHANGED <<walletVars, isUploading, formVars, dialogVars, hookVars,
                 chainVars, now, listingVars>>

\* mutant: the clock's milliseconds are added to the microseconds unscaled
expirationMicrosUnscaled(dateNow, dur) == dateNow + dur

\* const expirationMicros = Date.now() * 1000 + duration
expirationMicrosAt(dateNow, dur) == dateNow * MicrosPerMilli + dur

\* mutant: the redundancy level is read again after the encoding
SubmittedRedundancyReread(ru) == redundancyConfig(redundancyLevel)

\* the redundancy option whose parameters are handed to submitFileToChain
SubmittedRedundancy(ru) == ru.redundancyConfig

\* encodeFile returned the commitments: the expiration is computed and
\* submitFileToChain is called and runs to its first await
EncodeFileReturn(r) ==
  /\ run[r].pc = "encodeFile"
  /\ submitFileToChain(r,
       [run[r] EXCEPT
          !.commitments = encodeFile(run[r].file,
                                     run[r].encodeArgs[1],
                                     run[r].encodeArgs[2],
                                     run[r].encodeArgs[3]),
          !.submitArgs = ErasureArgs(SubmittedRedundancy(run[r])),
          !.registeredAt = now,
          !.expirationMicros = expirationMicrosAt(now, run[r].duration)])
  /\ UNCHANGED <<walletVars, isUploading, formVars, dialogVars, chainVars, now, listingVars>>

EncodeFileThrow(r) ==
  /\ run[r].pc = "encodeFile"
  /\ Failed(r, [run[r] EXCEPT !.thrown = "encodeFile"], "EncodeError")
  /\ UNCHANGED <<walletVars, formVars, dialogVars, hookVars, chainVars, now, listingVars>>

\* mutant: the picked file is uploaded under its own name
UploadedFileOriginal(ru) == <<ru.file>>

\* the name of fileWithNewName, the file handed to uploadFileToRcp
UploadedFile(ru) == ru.newFileName

\* submitFileToChain returned the hash: uploadFileToRcp is called
SubmitFulfilled(r) ==
  /\ run[r].pc = "awaitSubmit"
  /\ run[r].settled = "fulfilled"
  /\ run' = [run EXCEPT ![r] =
               [@ EXCEPT !.txHash = run[r].result,
                         !.pc = "uploadFileToRcp",
                         !.uploaded = UploadedFile(run[r]),
                         !.calls = Append(@, Call("uploadFileToRcp", NoTx))]]
  /\ UNCHANGED <<walletVars, isUploading, formVars, dialogVars, hookVars,
                 chainVars, now, listingVars>>

\* mutant: the error of submitFileToChain is swallowed, the upload goes on
SubmitRejectedUploads(r) ==
  /\ run[r].pc = "awaitSubmit"
  /\ run[r].settled = "rejected"
  /\ run' = [run EXCEPT ![r] =
               [@ EXCEPT !.pc = "uploadFileToRcp",
                         !.calls = Append(@, Call("uploadFileToRcp", NoTx))]]
  /\ UNCHANGED <<walletVars, isUploading, formVars, dialogVars, hookVars,
                 chainVars, now, listingVars>>

\* mutant: the error is reported but isUploading is not reset
SubmitRejectedKeepsUploading(r) ==
  /\ run[r].pc = "awaitSubmit"
  /\ run[r].settled = "rejected"
  /\ run' = [run EXCEPT ![r] =
               [@ EXCEPT !.pc = "done", !.outcome = "failed", !.alert = run[r].err]]
  /\ UNCHANGED <<walletVars, isUploading, formVars, dialogVars, hookVars,
                 chainVars, now, listingVars>>

\* submitFileToChain threw: uploadFile's catch and finally
SubmitRejected(r) ==
  /\ run[r].pc = "awaitSubmit"
  /\ run[r].settled = "rejected"
  /\ Failed(r, run[r], run[r].err)
  /\ UNCHANGED <<walletVars, formVars, dialogVars, hookVars, chainVars, now, listingVars>>

\* uploadFileToRcp returned: the success dialog and the refresh callback
UploadReturn(r) ==
  /\ run[r].pc = "uploadFileToRcp"
  /\ transactionHash' = run[r].txHash
  /\ uploadedFileName' = run[r].newFileName
  /\ showSuccessDialog' = TRUE
  /\ run' = [run EXCEPT ![r] =
               [@ EXCEPT !.pc = "done", !.uploadResult = "ok",
                         !.outcome = "success", !.refreshed = TRUE]]
  /\ isUploading' = FALSE
  /\ UNCHANGED <<walletVars, formVars, hookVars, chainVars, now,
                 listingVars>>

\* mutant: the success report sits in finally, a failed upload shows it too
UploadThrowReportsSuccess(r) ==
  /\ run[r].pc = "uploadFileToRcp"
  /\ transactionHash' = run[r].txHash
  /\ uploadedFileName' = run[r].newFileName
  /\ showSuccessDialog' = TRUE
  /\ run' = [run EXCEPT ![r] =
               [@ EXCEPT !.pc = "done", !.thrown = "uploadFileToRcp",
                         !.uploadResult = "error",
                         !.outcome = "success", !.refreshed = TRUE]]
  /\ isUploading' = FALSE
  /\ UNCHANGED <<walletVars, formVars, hookVars, chainVars, now,
                 listingVars>>

\* uploadFileToRcp threw an error with message msg: catch and finally
UploadRejects(r, msg) ==
  /\ run[r].pc = "uploadFileToRcp"
  /\ Failed(r, [run[r] EXCEPT !.thrown = "uploadFileToRcp", !.uploadResult = "error"],
            msg)
  /\ UNCHANGED <<walletVars, formVars, dialogVars, hookVars, chainVars, now, listingVars>>

UploadThrow(r) == UploadRejects(r, "StorageUploadError")

\* -------------------------------------------------- AccountBlobs: listing
\* the wallet reports another account while connected
AccountChange(a) ==
  /\ account # Null /\ a # account
  /\ account' = a
  /\ UNCHANGED <<wallet, isUploading, formVars, dialogVars, hookVars, run,
                 chainVars, now, listingVars>>

\* the parent hands AccountBlobs another refreshTrigger
RefreshSignal ==
  /\ refreshTrigger < MaxRefresh
  /\ refreshTrigger' = refreshTrigger + 1
  /\ UNCHANGED <<walletVars, isUploading, formVars, dialogVars, hookVars, run,
                 chainVars, now, blobs, shownFetch, deps, fetches, nextFetch,
                 unhandled, view>>

\* mutant: the effect has no dependency array and runs after every render
useEffectEveryRender ==
  /\ deps' = <<account, refreshTrigger>>
  /\ IF account = Null
     THEN /\ blobs' = <<>> /\ shownFetch' = 0
          /\ UNCHANGED <<fetches, nextFetch>>
     ELSE /\ nextFetch <= MaxFetches
          /\ fetches' = fetches \cup {[id |-> nextFetch, account |-> account]}
          /\ nextFetch' = nextFetch + 1
          /\ UNCHANGED <<blobs, shownFetch>>
  /\ UNCHANGED <<walletVars, isUploading, formVars, dialogVars, hookVars, run,
                 chainVars, now, refreshTrigger, unhandled, view>>

\* the effect of AccountBlobs, run by React when [account, refreshTrigger]
\* differs from the values of its previous run
useEffect ==
  /\ deps # <<account, refreshTrigger>>
  /\ deps' = <<account, refreshTrigger>>
  /\ IF account = Null
     THEN /\ blobs' = <<>> /\ shownFetch' = 0
          /\ UNCHANGED <<fetches, nextFetch>>
     ELSE /\ nextFetch <= MaxFetches
          /\ fetches' = fetches \cup {[id |-> nextFetch, account |-> account]}
          /\ nextFetch' = nextFetch + 1
          /\ UNCHANGED <<blobs, shownFetch>>
  /\ UNCHANGED <<walletVars, isUploading, formVars, dialogVars, hookVars, run,
                 chainVars, now, refreshTrigger, unhandled, view>>

\* getBlobs().then(...): the listing of the fetch's account arrived
FetchResolve(f, list) ==
  /\ f \in fetches
  /\ blobs' = list /\ shownFetch' = f.id
  /\ fetches' = fetches \ {f}
  /\ UNCHANGED <<walletVars, isUploading, formVars, dialogVars, hookVars, run,
                 chainVars, now, refreshTrigger, deps, nextFetch,
                 unhandled, view>>

\* getAccountBlobs rejected: getBlobs() rejects and so does the promise that
\* .then(...) returned, which has no rejection handler: the runtime reports
\* an unhandled rejection; setBlobs is not called
FetchReject(f) ==
  /\ f \in fetches
  /\ fetches' = fetches \ {f}
  /\ unhandled' = unhandled \cup {f.id}
  /\ UNCHANGED <<walletVars, isUploading, formVars, dialogVars, hookVars, run,
                 chainVars, now, refreshTrigger, blobs, shownFetch, deps,
                 nextFetch, view>>

\* one render of AccountBlobs: the two filters run one after the other and
\* every isExpired call reads the clock anew
Render ==
  \E r1 \in ClockReads(Len(blobs), now) :
    \E r2 \in ClockReads(Len(blobs), IF blobs = <<>> THEN now ELSE r1[Len(blobs)]) :
      /\ view' = [blobs |-> blobs, readsCurrent |-> r1, readsExpired |-> r2,
                  currentBlobs |-> currentBlobs(blobs, r1),
                  expiredBlobs |-> expiredBlobs(blobs, r2)]
      /\ now' = IF blobs = <<>> THEN now ELSE r2[Len(blobs)]
      /\ UNCHANGED <<walletVars, isUploading, formVars, dialogVars, hookVars,
                     run, chainVars, refreshTrigger, blobs, shownFetch,
                     deps, fetches, nextFetch, unhandled>>

\* ------------------------------------------------------- specification
Txs == 1..(nextTx - 1)

Next ==
  \/ \E a \in {"A"}, w \in Wallets : Connect(a, w)
  \/ Disconnect
  \/ \E f \in FileNames : handleFileChange(f)
  \/ \E v \in TypedValues : setLocation(v) \/ setDate(v) \/ setId(v)
  \/ resetForm
  \/ \E r \in Runs :
       \/ ClickUpload(r)
       \/ EncodeFileReturn(r) \/ EncodeFileThrow(r)
       \/ SignAndSubmitReturn(r) \/ SignAndSubmitThrow(r)
       \/ BuildReturn(r) \/ BuildThrow(r)
       \/ SignTransactionReturn(r) \/ SignTransactionThrow(r)
       \/ SubmitReturn(r) \/ SubmitThrow(r)
       \/ WaitReturn(r) \/ WaitThrow(r)
       \/ SubmitFulfilled(r) \/ SubmitRejected(r)
       \/ UploadReturn(r) \/ UploadThrow(r)
  \/ \E t \in Txs : ChainCommit(t) \/ ChainDiscard(t)

Spec == Init /\ [][Next]_vars

\* the listing component under account changes and refresh signals
NextListing ==
  \/ \E a \in Accounts : Connect(a, "native")
  \/ Disconnect
  \/ \E a \in Accounts : AccountChange(a)
  \/ RefreshSignal
  \/ useEffect
  \/ \E f \in fetches : (\E l \in ListingLists(f.account) : FetchResolve(f, l))
                        \/ FetchReject(f)

SpecListing == Init /\ [][NextListing]_vars

\* the listings of an account that holds at most one object
SingleLists(a) == {<<>>, <<Blob("p", a, MicrosPerMilli)>>}

\* the effect of AccountBlobs under account changes and refresh signals
NextEffect ==
  \/ \E a \in Accounts : Connect(a, "native")
  \/ Disconnect
  \/ \E a \in Accounts : AccountChange(a)
  \/ RefreshSignal
  \/ useEffect
  \/ \E f \in fetches : (\E l \in SingleLists(f.account) : FetchResolve(f, l))
                        \/ FetchReject(f)

SpecEffect == Init /\ [][NextEffect]_vars

\* the hook useSubmitFileToChain under direct callers
NextHook ==
  \/ \E w \in Wallets : Connect("A", w)
  \/ Disconnect
  \/ \E r \in Runs :
       \/ CallSubmitFileToChain(r)
       \/ SignAndSubmitReturn(r) \/ SignAndSubmitThrow(r)
       \/ BuildReturn(r) \/ BuildThrow(r)
       \/ SignTransactionReturn(r) \/ SignTransactionThrow(r)
       \/ SubmitReturn(r) \/ SubmitThrow(r)
       \/ WaitReturn(r) \/ WaitThrow(r)
  \/ \E t \in Txs : ChainCommit(t) \/ ChainDiscard(t)

SpecHook == Init /\ [][NextHook]_vars

\* the hook under callers that do not wait for one another
NextOverlap ==
  \/ \E w \in Wallets : Connect("A", w)
  \/ \E r \in Runs :
       \/ CallSubmitFileToChainAgain(r)
       \/ SignAndSubmitReturn(r) \/ SignAndSubmitThrow(r)
       \/ BuildReturn(r) \/ BuildThrow(r)
       \/ SignTransactionReturn(r) \/ SignTransactionThrow(r)
       \/ SubmitReturn(r) \/ SubmitThrow(r)
       \/ WaitReturn(r) \/ WaitThrow(r)
  \/ \E t \in Txs : ChainCommit(t)

SpecOverlap == Init /\ [][NextOverlap]_vars

\* the form of FileUpload and the first line of uploadFile
NextForm ==
  \/ Connect("A", "native")
  \/ Disconnect
  \/ \E f \in FileNames : handleFileChange(f)
  \/ \E v \in FieldValues : setLocation(v) \/ setDate(v) \/ setId(v)
  \/ \E r \in Runs : uploadFileReturns(r) \/ ClickUpload(r) \/ EncodeFileThrow(r)

SpecForm == Init /\ [][NextForm]_vars

\* the messages of the errors thrown over HTTP by the chain client and by the
\* storage client alike
Messages == {"Failed to fetch", "Request timed out"}

\* what uploadFile reports, with a native wallet and errors of any message
NextReport ==
  \/ Connect("A", "native")
  \/ \E f \in FileNames : handleFileChange(f)
  \/ \E v \in TypedValues : setLocation(v) \/ setDate(v) \/ setId(v)
  \/ \E r \in Runs :
       \/ ClickUpload(r)
       \/ EncodeFileReturn(r)
       \/ SignAndSubmitReturn(r)
       \/ WaitReturn(r)
       \/ \E m \in Messages : WaitRejects(r, m)
       \/ SubmitFulfilled(r) \/ SubmitRejected(r)
       \/ \E m \in Messages : UploadRejects(r, m)
  \/ \E t \in Txs : ChainCommit(t)

SpecReport == Init /\ [][NextReport]_vars

\* uploadFile with either kind of wallet, every field filled in once
NextTermination ==
  \/ \E w \in Wallets : Connect("A", w)
  \/ \E f \in FileNames : handleFileChange(f)
  \/ setLocation("x") \/ setDate("x") \/ setId("x")
  \/ \E r \in Runs :
       \/ ClickUpload(r)
       \/ EncodeFileReturn(r) \/ EncodeFileThrow(r)
       \/ SignAndSubmitReturn(r) \/ SignAndSubmitThrow(r)
       \/ BuildReturn(r) \/ BuildThrow(r)
       \/ SignTransactionReturn(r) \/ SignTransactionThrow(r)
       \/ SubmitReturn(r) \/ SubmitThrow(r)
       \/ WaitReturn(r) \/ WaitThrow(r)
       \/ SubmitFulfilled(r) \/ SubmitRejected(r)
       \/ UploadReturn(r) \/ UploadThrow(r)
  \/ \E t \in Txs : ChainCommit(t) \/ ChainDiscard(t)

\* every awaited external call returns or throws in the end, and the
\* continuation of a settled promise is run
EveryCallSettles ==
  \A r \in Runs :
    /\ WF_vars(EncodeFileReturn(r) \/ EncodeFileThrow(r))
    /\ WF_vars(SignAndSubmitReturn(r) \/ SignAndSubmitThrow(r))
    /\ WF_vars(BuildReturn(r) \/ BuildThrow(r))
    /\ WF_vars(SignTransactionReturn(r) \/ SignTransactionThrow(r))
    /\ WF_vars(SubmitReturn(r) \/ SubmitThrow(r))
    /\ WF_vars(WaitReturn(r) \/ WaitThrow(r))
    /\ WF_vars(SubmitFulfilled(r) \/ SubmitRejected(r))
    /\ WF_vars(UploadReturn(r) \/ UploadThrow(r))

SpecTermination == Init /\ [][NextTermination]_vars /\ EveryCallSettles

\* the runs of account a whose registration is final, in the order of the runs
RECURSIVE RegisteredRuns(_, _)
RegisteredRuns(a, r) ==
  IF r > MaxRuns THEN <<>>
  ELSE (IF run[r].account = a /\ run[r].finalized # NoTx /\ run[r].finalized \in ledger
        THEN <<r>> ELSE <<>>) \o RegisteredRuns(a, r + 1)

\* what getAccountBlobs returns for a: the objects the runs registered
RegisteredBlobs(a) ==
  LET rs == RegisteredRuns(a, 1)
  IN [i \in 1..Len(rs) |-> Blob(run[rs[i]].payload.blobName, run[rs[i]].payload.account,
                                run[rs[i]].payload.expirationMicros)]

\* registration with a chosen duration, then listing and classification, as
\* time passes
NextExpiration ==
  \/ Connect("A", "native")
  \/ \E f \in FileNames : handleFileChange(f)
  \/ setLocation("x") \/ setDate("x") \/ setId("x")
  \/ \E d \in durationOptions : setDuration(d)
  \/ Tick
  \/ \E r \in Runs :
       \/ ClickUpload(r)
       \/ EncodeFileReturn(r)
       \/ SignAndSubmitReturn(r)
       \/ WaitReturn(r)
       \/ SubmitFulfilled(r)
       \/ UploadReturn(r)
  \/ \E t \in Txs : ChainCommit(t)
  \/ useEffect
  \/ \E f \in fetches : FetchResolve(f, RegisteredBlobs(f.account))
  \/ Render

SpecExpiration == Init /\ [][NextExpiration]_vars

\* uploadFile while the user changes the redundancy level
NextRedundancy ==
  \/ Connect("A", "native")
  \/ \E f \in FileNames : handleFileChange(f)
  \/ setLocation("x") \/ setDate("x") \/ setId("x")
  \/ \E l \in RedundancyLevels : setRedundancyLevel(l)
  \/ \E r \in Runs :
       \/ ClickUpload(r)
       \/ EncodeFileReturn(r) \/ EncodeFileThrow(r)
       \/ SignAndSubmitReturn(r) \/ SignAndSubmitThrow(r)
       \/ WaitReturn(r)
       \/ SubmitFulfilled(r) \/ SubmitRejected(r)
       \/ UploadReturn(r)
  \/ resetForm
  \/ \E t \in Txs : ChainCommit(t)

SpecRedundancy == Init /\ [][NextRedundancy]_vars

\* the classifier over the listings of one account
NextClassifier ==
  \/ Connect("A", "native")
  \/ useEffect
  \/ \E f \in fetches : \E l \in ClassifierLists(f.account) : FetchResolve(f, l)
  \/ Render

SpecClassifier == Init /\ [][NextClassifier]_vars

\* ------------------------------------------------------------ properties
Called(r, op) == \E i \in 1..Len(run[r].calls) : run[r].calls[i][1] = op
CallCount(r, op) == Cardinality({i \in 1..Len(run[r].calls) : run[r].calls[i][1] = op})
SponsoredCalls == {"Account.fromPrivateKey", "build.simple", "signTransaction",
                   "signAsFeePayer", "submit.simple"}

\* C1: in every run of uploadFile, if submitFileToChain ended with an error
\* (on either path, at any step), uploadFileToRcp is not invoked in that run.
C1_NoUploadAfterChainError ==
  \A r \in Runs :
    run[r].settled = "rejected" =>
      /\ ~Called(r, "uploadFileToRcp")
      /\ run[r].pc \in {"awaitSubmit", "done"}
      /\ run[r].uploadResult = "none"

\* a finished run whose chain submission failed at the finality wait
C1_Witness ==
  \E r \in Runs :
    /\ run[r].pc = "done" /\ run[r].settled = "rejected"
    /\ run[r].thrown = "waitForTransaction"

\* C2: the success dialog (with the hash and the final file name) and the
\* refresh callback are reached in a run only after the chain submission and
\* the storage upload of that run succeeded; a run in which either failed
\* neither shows success nor triggers the refresh.
C2_SuccessOnlyAfterBoth ==
  /\ \A r \in Runs :
       (run[r].outcome = "success" \/ run[r].refreshed) =>
         /\ run[r].settled = "fulfilled"
         /\ run[r].txHash = run[r].finalized /\ run[r].txHash \in ledger
         /\ run[r].uploadResult = "ok"
  /\ \A r \in Runs :
       (run[r].settled = "rejected" \/ run[r].uploadResult = "error"
          \/ run[r].thrown # "") =>
         run[r].outcome # "success" /\ ~run[r].refreshed
  /\ showSuccessDialog =>
       \E r \in Runs : /\ run[r].outcome = "success"
                       /\ transactionHash = run[r].txHash
                       /\ uploadedFileName = run[r].newFileName

\* the dialog is open after a run whose two steps succeeded
C2_Witness ==
  /\ showSuccessDialog
  /\ \E r \in Runs : run[r].outcome = "success" /\ run[r].refreshed

\* C3: a submission whose wallet reports native submission never constructs
\* the sponsor account, never builds a raw fee-payer transaction and never
\* asks for a detached signature.
C3_NativeNeverSponsors ==
  \A r \in Runs :
    run[r].wallet = "native" =>
      /\ \A op \in SponsoredCalls : ~Called(r, op)
      /\ run[r].rawTransaction = NoTx
      /\ run[r].senderAuthenticator = NoAuth
      /\ run[r].feePayerAuthenticator = NoAuth

\* a native submission that went through to its result
C3_Witness ==
  \E r \in Runs : run[r].wallet = "native" /\ run[r].settled = "fulfilled"

\* C4: on the sponsored path the raw transaction is built once (never twice,
\* and once before any authorization or submit call); the sender
\* authorization, the fee-payer authorization and the submit call are all
\* over that one transaction; submit is not called before both exist.
C4_OneRawTransaction ==
  \A r \in Runs :
    run[r].wallet = "foreign" =>
      /\ CallCount(r, "build.simple") <= 1
      /\ \A i \in 1..Len(run[r].calls) :
           run[r].calls[i][1] \in {"signTransaction", "signAsFeePayer", "submit.simple"}
             => /\ CallCount(r, "build.simple") = 1
                /\ run[r].rawTransaction # NoTx
                /\ run[r].calls[i][2] = run[r].rawTransaction
      /\ run[r].senderAuthenticator.over \in {NoTx, run[r].rawTransaction}
      /\ run[r].feePayerAuthenticator.over \in {NoTx, run[r].rawTransaction}
      /\ Called(r, "submit.simple") =>
           /\ CallCount(r, "build.simple") = 1
           /\ CallCount(r, "submit.simple") = 1
           /\ run[r].senderAuthenticator =
                [signer |-> run[r].account, over |-> run[r].rawTransaction]
           /\ run[r].feePayerAuthenticator =
                [signer |-> "sponsor", over |-> run[r].rawTransaction]
      /\ run[r].transactionSubmitted \in {NoTx, run[r].rawTransaction}

\* a sponsored submission whose transaction the chain accepted
C4_Witness ==
  \E r \in Runs :
    /\ run[r].wallet = "foreign" /\ Called(r, "submit.simple")
    /\ run[r].transactionSubmitted # NoTx

\* C5: on the sponsored path, if signTransaction or signAsFeePayer fails, no
\* submit call is made in that submission and the call ends with an error.
C5_NoSubmitAfterSigningFailure ==
  \A r \in Runs :
    run[r].thrown \in {"signTransaction", "signAsFeePayer"} =>
      /\ ~Called(r, "submit.simple")
      /\ run[r].settled = "rejected"
      /\ run[r].transactionSubmitted = NoTx
      /\ run[r].rawTransaction \notin mempool \cup ledger

\* one submission failed at the sender signature, another at the sponsor's
C5_Witness ==
  \E r, q \in Runs :
    /\ run[r].thrown = "signTransaction" /\ run[r].pc = "done"
    /\ run[q].thrown = "signAsFeePayer" /\ run[q].pc = "done"

\* the transaction a submission handed to the chain, if any
CommittedBy(r) ==
  ledger \cap ({run[r].transactionSubmitted, run[r].rawTransaction} \ {NoTx})
AcceptedFrom(r) ==
  (mempool \cup ledger) \cap ({run[r].transactionSubmitted, run[r].rawTransaction} \ {NoTx})

\* C6 (as stated): whenever submitFileToChain ends with an error, nothing has
\* been committed on-chain by that submission, also when the transaction was
\* accepted and the finality wait then failed.
C6_ErrorMeansNothingCommitted ==
  \A r \in Runs : run[r].settled = "rejected" => CommittedBy(r) = {}

\* C6 (amended): whenever submitFileToChain ends with an error raised before
\* its submit step returned a hash, the chain holds no transaction of that
\* submission; an error of the finality wait is raised for a transaction the
\* chain did accept, which may be committed.
C6_ErrorBeforeAcceptance ==
  \A r \in Runs :
    run[r].settled = "rejected" =>
      IF run[r].thrown = "waitForTransaction"
      THEN run[r].transactionSubmitted # NoTx
      ELSE AcceptedFrom(r) = {} /\ run[r].transactionSubmitted = NoTx

\* a sponsored submission that failed at the submit call itself
C6_Witness ==
  \E r \in Runs :
    /\ run[r].settled = "rejected" /\ run[r].thrown = "submit.simple"
    /\ run[r].rawTransaction # NoTx

\* C7: submitFileToChain returns a hash only after the finality wait for that
\* hash returned, and the hash is the one its submit step returned.
C7_HashAfterFinality ==
  \A r \in Runs :
    (run[r].settled = "fulfilled" \/ run[r].txHash # NoTx) =>
      /\ run[r].result # NoTx
      /\ run[r].result = run[r].transactionSubmitted
      /\ run[r].finalized = run[r].result
      /\ run[r].result \in ledger
      /\ CallCount(r, "waitForTransaction") = 1
      /\ \E i \in 1..Len(run[r].calls) :
           run[r].calls[i] = Call("waitForTransaction", run[r].result)
      /\ run[r].txHash \in {NoTx, run[r].result}

\* a native and a sponsored submission that both returned their hash
C7_Witness ==
  \E r, q \in Runs :
    /\ run[r].wallet = "native" /\ run[r].settled = "fulfilled"
    /\ run[q].wallet = "foreign" /\ run[q].settled = "fulfilled"

InView(b, list) == \E i \in 1..Len(list) : list[i] = b

\* C8 (as stated): an object is in the current view exactly when its
\* expirationMicros is strictly greater than now, and in the expired view
\* otherwise; expirationMicros = now is expired.
C8_TieIsExpired ==
  \A i \in 1..Len(view.blobs) :
    LET b == view.blobs[i] IN
      /\ InView(b, view.currentBlobs)
           <=> b.expirationMicros > view.readsCurrent[i] * MicrosPerMilli
      /\ InView(b, view.expiredBlobs)
           <=> ~(b.expirationMicros > view.readsExpired[i] * MicrosPerMilli)

\* C9 (as stated): every fetched object is in exactly one of currentBlobs and
\* expiredBlobs, also when the clock advances between the two filters.
C9_ExactlyOneView ==
  \A i \in 1..Len(view.blobs) :
    InView(view.blobs[i], view.currentBlobs)
      <=> ~InView(view.blobs[i], view.expiredBlobs)

\* C10 (as stated): when the effect runs because the account changed from
\* one account to another, the previous list is cleared at once, before the
\* fetch for the new account resolves.
C10_ClearedOnAccountChange ==
  [][(/\ deps[1] # Null /\ deps'[1] # Null /\ deps'[1] # deps[1])
       => blobs' = <<>>]_vars

\* C11 (as stated): when a listing fetch fails, the listing ends up empty
\* (the previous results are cleared) and the failure is handled inside the
\* component: no rejection is left without a handler.
C11_FetchFailureClearsListing ==
  [][\A f \in fetches :
       FetchReject(f) => (blobs' = <<>> /\ unhandled' = unhandled)]_vars

\* the most recent submission attempt
IsLastAttempt(r) == run[r].pc # "idle" /\ \A q \in Runs : q > r => run[q].pc = "idle"

\* C12 (as stated): at the start of every submission attempt isSubmitting is
\* set and error is cleared before any wallet or chain call of the attempt;
\* no attempt, also one rejected for a missing account or wallet, leaves the
\* error of an earlier attempt visible.
C12_ResetAtEveryAttempt ==
  \A r \in Runs :
    IsLastAttempt(r) =>
      /\ (run[r].calls # <<>> /\ run[r].settled = "pending")
           => (isSubmitting /\ error = Null)
      /\ error # Null => (run[r].settled = "rejected" /\ error = run[r].err)

\* C13 (as stated): whenever a submission ends with a terminal error,
\* isSubmitting is false afterwards, the exposed error is the message of the
\* error the call was rejected with, and that error reaches the caller.
C13_TerminalErrorExposed ==
  \A r \in Runs :
    (IsLastAttempt(r) /\ run[r].settled = "rejected") =>
      /\ ~isSubmitting
      /\ run[r].err # ""
      /\ error = run[r].err

\* uploadFile is entered for run r while a required field is empty
EntersWithEmptyField(r) ==
  /\ run[r].pc = "idle" /\ run'[r].pc # "idle"
  /\ (location = "" \/ date = "" \/ id = "")

Stage(op) ==
  CASE op = "encodeFile" -> 1
    [] op = "uploadFileToRcp" -> 3
    [] OTHER -> 2

LastCall(r) == run[r].calls[Len(run[r].calls)][1]

\* C16: within one uploadFile run the steps go in the order encode, compute
\* expiration, chain submission (through finality), storage upload, success
\* report; each starts only when the result of the one before is there, and
\* no two calls of a run are in flight together.
C16_FixedStepOrder ==
  \A r \in Runs :
    LET c == run[r].calls IN
      /\ \A i, j \in 1..Len(c) : i < j => Stage(c[i][1]) <= Stage(c[j][1])
      /\ CallCount(r, "encodeFile") <= 1 /\ CallCount(r, "uploadFileToRcp") <= 1
      /\ c # <<>> => c[1][1] = "encodeFile"
      /\ run[r].pc \in {"encodeFile", "uploadFileToRcp", "signAndSubmitTransaction",
                         "signTransaction", "waitForTransaction"}
           => LastCall(r) = run[r].pc
      /\ run[r].pc = "build" => LastCall(r) = "build.simple"
      /\ run[r].pc = "submit" => LastCall(r) = "submit.simple"
      /\ run[r].expirationMicros # 0 =>
           run[r].commitments = encodeFile(run[r].file,
                                           run[r].redundancyConfig.erasure_n,
                                           run[r].redundancyConfig.erasure_k,
                                           run[r].redundancyConfig.erasure_d)
      /\ (\E i \in 1..Len(c) : Stage(c[i][1]) = 2) =>
           /\ run[r].expirationMicros # 0
           /\ run[r].payload.expirationMicros = run[r].expirationMicros
           /\ run[r].payload.blobMerkleRoot = run[r].commitments.blob_merkle_root
      /\ Called(r, "uploadFileToRcp") =>
           /\ run[r].settled = "fulfilled"
           /\ run[r].finalized = run[r].result /\ run[r].txHash = run[r].result
      /\ run[r].outcome = "success" =>
           run[r].uploadResult = "ok" /\ LastCall(r) = "uploadFileToRcp"

\* a run went through all its steps on the sponsored path
C16_Witness ==
  \E r \in Runs :
    /\ run[r].outcome = "success" /\ run[r].wallet = "foreign"
    /\ Len(run[r].calls) = 8

\* the calls of the sponsored path, in the order of the code
SponsoredOrder ==
  <<"Account.fromPrivateKey", "build.simple", "signTransaction",
    "signAsFeePayer", "submit.simple", "waitForTransaction">>

IsHookCall(c) == Stage(c[1]) = 2
HookCalls(r) == SelectSeq(run[r].calls, IsHookCall)

\* C17: on the sponsored path the calls are made in the order sponsor
\* account, build with fee payer, wallet signature, sponsor signature, one
\* submit with both authenticators, wait for finality; after a failed step
\* no later step is made.
C17_SponsoredCallOrder ==
  \A r \in Runs :
    run[r].wallet = "foreign" =>
      LET h == HookCalls(r) IN
        /\ Len(h) <= Len(SponsoredOrder)
        /\ \A i \in 1..Len(h) : h[i][1] = SponsoredOrder[i]
        /\ run[r].thrown \in {SponsoredOrder[i] : i \in 1..Len(SponsoredOrder)} =>
             /\ h # <<>> /\ h[Len(h)][1] = run[r].thrown
             /\ run[r].settled = "rejected"
        /\ Called(r, "submit.simple") =>
             /\ run[r].senderAuthenticator.signer = run[r].account
             /\ run[r].feePayerAuthenticator.signer = "sponsor"

\* one sponsored submission made all six calls and returned, another one
\* stopped at the failed build
C17_Witness ==
  \E r, q \in Runs :
    /\ run[r].wallet = "foreign" /\ run[r].settled = "fulfilled"
    /\ Len(HookCalls(r)) = Len(SponsoredOrder)
    /\ run[q].wallet = "foreign" /\ run[q].thrown = "build.simple"
    /\ Len(HookCalls(q)) = 2

\* C18: in every successful run uploadFileToRcp is invoked exactly once and
\* the name of the uploaded file is the blobName of the registration payload
\* of that run, the generated file name.
C18_UploadedUnderRegisteredName ==
  \A r \in Runs :
    run[r].outcome = "success" =>
      /\ CallCount(r, "uploadFileToRcp") = 1
      /\ run[r].uploaded # <<>>
      /\ run[r].uploaded = run[r].payload.blobName
      /\ run[r].uploaded = run[r].newFileName
      /\ run[r].payload.account = run[r].account

\* a successful run whose file was renamed from the form's fields
C18_Witness ==
  \E r \in Runs :
    /\ run[r].outcome = "success"
    /\ run[r].payload.blobName = <<"x", "_", "x", "_", "x", ".jpg">>

\* C19: on the native path a failed finality wait ends the call with an
\* error and is not retried: signAndSubmitTransaction is invoked at most once
\* per call and no wallet or chain call follows the failed wait.
C19_NativeNoRetry ==
  \A r \in Runs :
    run[r].wallet = "native" =>
      /\ CallCount(r, "signAndSubmitTransaction") <= 1
      /\ CallCount(r, "waitForTransaction") <= 1
      /\ run[r].thrown = "waitForTransaction" =>
           /\ run[r].settled = "rejected" /\ run[r].err = "FinalityError"
           /\ LastCall(r) = "waitForTransaction"
           /\ run[r].pc \in {"awaitSubmit", "done"}

\* a native submission whose finality wait failed, reported by uploadFile
C19_Witness ==
  \E r \in Runs :
    /\ run[r].wallet = "native" /\ run[r].thrown = "waitForTransaction"
    /\ run[r].pc = "done" /\ run[r].alert = "FinalityError"

\* what the user gets to see of a finished run
Report(r) == [outcome |-> run[r].outcome, alert |-> run[r].alert,
              dialog |-> run[r].outcome = "success"]

\* C20 (as stated): when the storage upload fails after the registration,
\* the run ends in an error that is reported to the user, is never reported
\* as success, and differs from what a failed chain submission reports.
C20_StorageFailureDistinct ==
  \A r \in Runs :
    run[r].uploadResult = "error" =>
      /\ run[r].outcome = "failed" /\ run[r].alert # "" /\ ~run[r].refreshed
      /\ \A q \in Runs :
           (run[q].pc = "done" /\ run[q].settled = "rejected")
             => Report(q) # Report(r)

\* C21: within one uploadFile run the (n, k, d) handed to encodeFile are the
\* ones handed to submitFileToChain, also when the redundancy level is
\* changed while the run is suspended; they are those of a configured option,
\* of Standard when the level the run read is none of the options' values.
C21_OneRedundancyPerRun ==
  \A r \in Runs :
    /\ run[r].submitArgs # <<>> =>
         /\ run[r].submitArgs = run[r].encodeArgs
         /\ run[r].commitments = encodeFile(run[r].file, run[r].submitArgs[1],
                                            run[r].submitArgs[2], run[r].submitArgs[3])
    /\ run[r].encodeArgs # <<>> =>
         /\ \E i \in 1..Len(redundancyOptions) :
              /\ run[r].encodeArgs = ErasureArgs(redundancyOptions[i])
              /\ run[r].level = redundancyOptions[i].value
                   \/ (i = 2 /\ \A j \in 1..Len(redundancyOptions) :
                                   redundancyOptions[j].value # run[r].level)

\* a run that read "high" handed its parameters to submitFileToChain after
\* the level was changed to "economic"; another run read an unknown level
C21_Witness ==
  \E r, q \in Runs :
    /\ run[r].level = "high" /\ run[r].submitArgs = <<20, 10, 15>>
    /\ run[r].pc = "signAndSubmitTransaction" /\ redundancyLevel = "economic"
    /\ run[q].level = "other" /\ run[q].submitArgs = <<16, 10, 13>>

\* the step starts exactly one listing fetch, for the connected account
StartsOneFetch ==
  /\ nextFetch' = nextFetch + 1
  /\ fetches' = fetches \cup {[id |-> nextFetch, account |-> account]}
  /\ account # Null /\ account' = account

\* the step starts no listing fetch
StartsNoFetch == nextFetch' = nextFetch /\ fetches' \subseteq fetches

\* C22 (as stated): every change of the account to a non-null account and
\* every change of the refresh counter starts exactly one new listing fetch
\* for the connected account; a render without such a change starts none.
C22_EveryChangeFetches ==
  [][IF deps' # deps /\ (refreshTrigger # deps[2] \/ account \notin {Null, deps[1]})
     THEN StartsOneFetch
     ELSE StartsNoFetch]_vars

\* C22 (amended): every render in which the account or the refresh counter
\* differs from the previous render starts exactly one new listing fetch for
\* the connected account when an account is connected, and none (the list is
\* cleared) when no account is connected; a render without such a change
\* starts none.
C22_OneFetchPerChangedRender ==
  [][IF deps' # deps
     THEN /\ deps # <<account, refreshTrigger>>
          /\ deps' = <<account, refreshTrigger>>
          /\ IF account # Null
             THEN StartsOneFetch
             ELSE StartsNoFetch /\ blobs' = <<>>
     ELSE StartsNoFetch]_vars

\* three fetches were started: at the connection of A, at the change to B and
\* at the refresh signal
C22_Witness ==
  /\ nextFetch = 4 /\ deps = <<"B", 1>> /\ refreshTrigger = 1
  /\ \E f, g, h \in fetches :
       /\ f.id = 1 /\ f.account = "A"
       /\ g.id = 2 /\ g.account = "B"
       /\ h.id = 3 /\ h.account = "B"

\* C23: the expiration a run registers is (clock in ms when it is computed)
\* * 1000 + the chosen duration in microseconds, and the classifier compares
\* it with (clock in ms) * 1000: an object registered at clock t with
\* duration D is current at every later reading t' with 1000 t' < 1000 t + D
\* and expired at every reading t' with 1000 t' > 1000 t + D.
C23_ExpirationInMicroseconds ==
  /\ \A r \in Runs :
       run[r].registeredAt >= 0 =>
         /\ run[r].duration \in durationOptions
         /\ run[r].expirationMicros = 1000 * run[r].registeredAt + run[r].duration
         /\ run[r].payload.expirationMicros = run[r].expirationMicros
  /\ \A i \in 1..Len(view.blobs) :
       \E r \in Runs :
         /\ run[r].finalized \in ledger
         /\ view.blobs[i].expirationMicros = 1000 * run[r].registeredAt + run[r].duration
         /\ view.readsCurrent[i] >= run[r].registeredAt
         /\ 1000 * view.readsCurrent[i] < 1000 * run[r].registeredAt + run[r].duration
              => InView(view.blobs[i], view.currentBlobs)
         /\ 1000 * view.readsExpired[i] > 1000 * run[r].registeredAt + run[r].duration
              => InView(view.blobs[i], view.expiredBlobs)

\* an object registered at clock 0 for one millisecond is listed as expired
\* at clock 2, next to an object registered at clock 1
C23_Witness ==
  /\ Len(view.blobs) = 2
  /\ \E r, q \in Runs :
       /\ run[r].registeredAt = 0 /\ run[r].duration = 1000
       /\ run[q].registeredAt = 1
       /\ view.blobs[1].expirationMicros = run[r].expirationMicros
       /\ view.readsExpired[1] = 2
       /\ InView(view.blobs[1], view.expiredBlobs)
       /\ ~InView(view.blobs[1], view.currentBlobs)

\* the position of an object in a list that holds it
Pos(b, list) == CHOOSE k \in 1..Len(list) : list[k] = b

\* list v holds the objects of view.blobs whose flag is set, each once, in
\* the reverse of their order in view.blobs
ReversedSelection(v, flag) ==
  /\ Len(v) = Cardinality({i \in 1..Len(view.blobs) : flag[i]})
  /\ \A i \in 1..Len(view.blobs) : flag[i] <=> InView(view.blobs[i], v)
  /\ \A i, j \in 1..Len(view.blobs) :
       (i < j /\ flag[i] /\ flag[j])
         => Pos(view.blobs[j], v) < Pos(view.blobs[i], v)

\* C24: each of the two views lists its objects in exactly the reverse of
\* their relative order in the list the listing API returned, and reversing
\* does not change which objects a view holds.
C24_ViewsReverseApiOrder ==
  /\ ReversedSelection(view.currentBlobs,
                       [i \in 1..Len(view.blobs) |->
                          ~isExpired(view.readsCurrent[i], view.blobs[i].expirationMicros)])
  /\ ReversedSelection(view.expiredBlobs,
                       [i \in 1..Len(view.blobs) |->
                          isExpired(view.readsExpired[i], view.blobs[i].expirationMicros)])

\* two current objects are listed in the reverse of the API's order
C24_Witness ==
  /\ Len(view.blobs) = 2 /\ Len(view.currentBlobs) = 2
  /\ view.currentBlobs[1] = view.blobs[2]
  /\ view.currentBlobs[2] = view.blobs[1]

\* C25 (as stated): in every reachable state, also when fetches resolve out
\* of the order they were started in or after the wallet disconnected, a
\* non-empty displayed list is the result of the most recently started fetch
\* and was fetched for the connected account.
C25_DisplayedListIsLatest ==
  blobs # <<>> =>
    /\ account # Null
    /\ \A i \in 1..Len(blobs) : blobs[i].owner = account
    /\ shownFetch = nextFetch - 1

\* the submitFileToChain call of run r has started and not yet finished
InFlight(r) ==
  run[r].pc \in {"signAndSubmitTransaction", "build", "signTransaction",
                 "submit", "waitForTransaction"}

\* C26 (as stated): when submissions overlap, isSubmitting is true in every
\* state in which a submitFileToChain call has started and not yet finished;
\* the completion of one call does not clear it while another is in flight.
C26_InProgressWhileAnyInFlight ==
  (\E r \in Runs : InFlight(r)) => isSubmitting

\* C27: each submitFileToChain call runs exactly one of the two protocols,
\* chosen once from wallet.isAptosNativeWallet: no call makes both
\* signAndSubmitTransaction and a build/sign/submit call of the sponsored
\* path, and a non-native wallet never triggers signAndSubmitTransaction.
C27_ExactlyOneProtocol ==
  \A r \in Runs :
    LET native == Called(r, "signAndSubmitTransaction")
        sponsored == \E op \in SponsoredCalls : Called(r, op)
    IN /\ ~(native /\ sponsored)
       /\ native => run[r].wallet = "native"
       /\ sponsored => run[r].wallet = "foreign"
       /\ run[r].wallet = "foreign" => ~native
       /\ Called(r, "waitForTransaction") => (native \/ sponsored)
       /\ (run[r].settled = "fulfilled") => (native \/ sponsored)

\* a finished sponsored submission and a finished native one
C27_Witness ==
  \E r, q \in Runs :
    /\ run[r].wallet = "foreign" /\ run[r].settled = "fulfilled"
    /\ Called(r, "submit.simple") /\ ~Called(r, "signAndSubmitTransaction")
    /\ run[q].wallet = "native" /\ run[q].settled = "fulfilled"
    /\ Called(q, "signAndSubmitTransaction")

\* run r ended with exactly one outcome: the success dialog, or the alert
Terminal(r) ==
  /\ run[r].pc = "done"
  /\ \/ /\ run[r].outcome = "success" /\ run[r].alert = "" /\ run[r].refreshed
     \/ /\ run[r].outcome = "failed" /\ run[r].alert # "" /\ ~run[r].refreshed

\* C28: if every external call returns or throws in the end, every uploadFile
\* run that passed its guard reaches one terminal outcome, success or
\* reported failure and never both, and isUploading is false at that point.
C28_RunTerminatesOnce ==
  /\ [](\A r \in Runs : run[r].pc = "done" => Terminal(r))
  /\ \A r \in Runs :
       (run[r].pc = "encodeFile") ~> (Terminal(r) /\ ~isUploading)

\* one run ended with the success dialog, another with the alert
C28_Witness ==
  \E r, q \in Runs :
    /\ Terminal(r) /\ run[r].outcome = "success"
    /\ Terminal(q) /\ run[q].outcome = "failed" /\ run[q].thrown = "uploadFileToRcp"
    /\ ~isUploading

\* the call of run r was made with no account or no wallet
CalledUnconnected(r) ==
  /\ run[r].pc # "idle"
  /\ (run[r].account = Null \/ run[r].wallet = Null)

\* C29: a submitFileToChain called with no connected account or wallet raises
\* its error before a payload is built and before any wallet or chain call,
\* and leaves isSubmitting and error as they were.
C29_UnconnectedCallLeavesState ==
  /\ [](\A r \in Runs :
         CalledUnconnected(r) =>
           /\ run[r].settled = "rejected"
           /\ run[r].err = "Account and wallet are required"
           /\ run[r].payload = IdleRun.payload
           /\ run[r].calls = <<>>
           /\ run[r].transactionSubmitted = NoTx)
  /\ [][\A r \in Runs :
          (run[r].pc = "idle" /\ CalledUnconnected(r)')
            => (isSubmitting' = isSubmitting /\ error' = error)]_vars

\* an unconnected call was rejected while the error of an earlier, failed
\* attempt is still the exposed one
C29_Witness ==
  \E r, q \in Runs :
    /\ q < r
    /\ CalledUnconnected(r) /\ run[r].settled = "rejected"
    /\ run[q].settled = "rejected" /\ run[q].calls # <<>>
    /\ error = run[q].err /\ error # run[r].err
    /\ ~isSubmitting

====
